---- MODULE Spec2Model ----
(***************************************************************************)
(* State-machine model of the simulation core of the blob game:            *)
(*   - the balance meters and terminal evaluation of the zustand store     *)
(*     (src/src/stores/gameStore.ts, src/src/utils/balanceMechanics.ts),   *)
(*   - the player split / fusion state machine and the mass-dominance      *)
(*     rule (src/src/utils/entities.ts),                                   *)
(*   - the per-tick collision resolution of the second GameCanvas variant  *)
(*     (src/src/components/GameCanvas.tsx, lines 1628-1925).               *)
(* Masses are numbers of the form n / 2^MassBits (binary fractions, as the *)
(* doubles of the program are); times are milliseconds.                    *)
(***************************************************************************)
EXTENDS Integers, Sequences, FiniteSets, TLC

VARIABLES
    \* ---- gameStore.ts ----
    humanity,        \* GameState.humanity
    kiControl,       \* GameState.kiControl
    isGameRunning,   \* GameState.isGameRunning
    isGameWon,       \* GameState.isGameWon
    isGameLost,      \* GameState.isGameLost
    pending,         \* meter updates processBalanceAction has still to issue
    lastOp,          \* the operation that produced this state
    lastClamp,       \* which side of [0,100] the last update was clamped at
    isPaused,        \* GameState.isPaused
    skills,          \* GameState.skills, by skill id
    now,             \* Date.now()
    skillCall,       \* the last activateSkill call: its argument, its result
                     \* and the activateTime the skill had before the call
    \* ---- Cell.canEat applied to a pair of cells ----
    cellA, cellB,    \* masses of two cells
    eatAB, eatBA,    \* A.canEat(B), B.canEat(A), once lastOp = "canEat"
    \* ---- the world of GameCanvas.tsx ----
    player,          \* playerRef.current, the PlayerCell with its splitCells
    bots,            \* botsRef.current
    pellets,         \* the food pellets in pelletsRef.current
    sinceStart,      \* time since gameStartTimeRef, up to the grace period
    splitResult,     \* what the last split() returned
    cellsEaten,      \* number of player cells eaten by bots so far
    tickLog,         \* what the last tick did: fusion and eaten player cells
    \* ---- positions ----
    arena,           \* cells on one line of the world and the ticks they lived
    \* ---- power-ups ----
    power            \* speedBoosts and pointMultipliers of the player's bodies

storeVars == <<humanity, kiControl, isGameRunning, isGameWon, isGameLost,
               pending, lastClamp>>
eatVars == <<cellA, cellB, eatAB, eatBA>>
worldVars == <<player, bots, pellets, sinceStart, splitResult, cellsEaten,
              tickLog>>
skillVars == <<skills, now, skillCall>>
fieldVars == <<arena, power>>
vars == <<storeVars, eatVars, worldVars, skillVars, fieldVars, isPaused, lastOp>>

-----------------------------------------------------------------------------
(* Bounds of the model                                                     *)

\* direct updateHumanity / updateKIControl calls use these amounts
MaxDelta == 150
DirectDeltas == {-MaxDelta, -1, 1, MaxDelta}

\* largest mass of the two cells handed to canEat
MaxEatMass == 24

\* the length of a tick of the game loop, in ms
TickTime == 15000
DeltaTimes == {TickTime}

\* the player cells (main cell first) that touch pellets and bots in a tick
MaxTouch == 2

\* the pairs of player cell and bot that overlap in a tick
MaxPairs == 2

\* Date.now() when the store is created, the time that passes at once, and
\* the number of times it passes
StartTime == 1
TimeStep == 2500
MaxTimeSteps == 4

\* the deltaTime of a cooldown tick
SkillTickTime == 2500

\* the skill ids activateSkill is called with: two of the game, one unknown
SkillCalls == {"parley", "stealth", "unknown"}

\* the food pellets of the world
NumPellets == 1

\* the player cells that bots eat in one run
MaxEaten == 2

\* number of bodies of the player, number of triangles it picks up
MaxPowerBodies == 2
MaxPickups == 3

\* the worlds at the start: a player of mass BigMass alone, a player of mass
\* SmallMass with a small bot and a giant, and one with food pellets
MaxLate == 1
MaxClock == 11
MergeMass == 200
MaxFuseBodies == 4
BigMass == 1000
SmallMass == 100
SmallBot == 30
GiantBot == 150
FeastMass == 76
FeastWorld == [mass |-> FeastMass, bots |-> <<34, 59, 58, 56>>, pellets |-> 0]
InitWorlds ==
    {[mass |-> BigMass, bots |-> <<>>, pellets |-> 0],
     [mass |-> SmallMass, bots |-> <<SmallBot, GiantBot>>, pellets |-> 0],
     [mass |-> SmallMass, bots |-> <<>>, pellets |-> NumPellets]}

-----------------------------------------------------------------------------
(* Constants of the program                                                *)

HungerPeriod == 1000
HungerDivisor == 10000
MinMass == 5
PelletMass == 3
PelletRespawnTime == 30000
BaseRequiredMass == 40
RequiredMassStep == 20
maxSplitLevel == 4
SplitCooldownTime == 7500
BaseFusionTime == 15000
MergeDuration == 1000
GracePeriod == 3000

SplitOps == {"split", "keySpace"}

-----------------------------------------------------------------------------
(* gameStore.ts                                                            *)

Max(a, b) == IF a >= b THEN a ELSE b
Min(a, b) == IF a <= b THEN a ELSE b

\* Math.max(0, Math.min(100, value))
ClampNoCeiling(value) == Max(0, value)
Clamp(value) == Max(0, Min(100, value))

\* checkWinLoseConditions, applied to the meters h, k and the flags
\* f = <<isGameRunning, isGameWon, isGameLost>>; endGame(won) sets
\* <<FALSE, won, ~won>>
EndGameFlags(won) == <<FALSE, won, ~won>>

CheckStrictWin(h, k, f) ==
    IF h > 85 /\ k <= 20 THEN EndGameFlags(TRUE)
    ELSE IF h <= 0 \/ k >= 100 THEN EndGameFlags(FALSE)
    ELSE f
CheckWinLoseConditions(h, k, f) ==
    IF h >= 85 /\ k <= 20 THEN EndGameFlags(TRUE)
    ELSE IF h <= 0 \/ k >= 100 THEN EndGameFlags(FALSE)
    ELSE f

Flags == <<isGameRunning, isGameWon, isGameLost>>

\* where value lies with respect to the range the meters are clamped to
ClampSide(value) ==
    IF value < 0 THEN "floor" ELSE IF value > 100 THEN "ceiling" ELSE "none"

\* updateHumanity(amount): clamp, then checkWinLoseConditions
UpdateHumanity(amount) ==
    LET h == Clamp(humanity + amount)
        f == CheckWinLoseConditions(h, kiControl, Flags)
    IN /\ humanity' = h
       /\ lastClamp' = ClampSide(humanity + amount)
       /\ isGameRunning' = f[1]
       /\ isGameWon' = f[2]
       /\ isGameLost' = f[3]
       /\ lastOp' = "updateHumanity"
       /\ UNCHANGED kiControl

\* updateKIControl(amount): clamp, then checkWinLoseConditions
UpdateKIControl(amount) ==
    LET k == Clamp(kiControl + amount)
        f == CheckWinLoseConditions(humanity, k, Flags)
    IN /\ kiControl' = k
       /\ lastClamp' = ClampSide(kiControl + amount)
       /\ isGameRunning' = f[1]
       /\ isGameWon' = f[2]
       /\ isGameLost' = f[3]
       /\ lastOp' = "updateKIControl"
       /\ UNCHANGED humanity

\* one meter update <<meter, amount>>
ApplyUpdate(u) ==
    IF u[1] = "humanity" THEN UpdateHumanity(u[2]) ELSE UpdateKIControl(u[2])

\* initialSkills: the cooldown of every skill
ParleyCooldown == 10000
StealthCooldown == 15000
DecoyCooldown == 8000
BreachCooldown == 12000
SkillIds == {"parley", "stealth", "decoy", "breach"}
SkillCooldown(id) ==
    CASE id = "parley" -> ParleyCooldown
      [] id = "stealth" -> StealthCooldown
      [] id = "decoy" -> DecoyCooldown
      [] id = "breach" -> BreachCooldown

\* activateTime of a skill that was never activated (undefined)
NoTime == 0

InitialSkills ==
    [id \in SkillIds |-> [cooldown |-> SkillCooldown(id), currentCooldown |-> 0,
                          isActive |-> FALSE, activateTime |-> NoTime]]

\* startGame
StartGame ==
    /\ pending = <<>>
    /\ isGameRunning' = TRUE
    /\ isGameWon' = FALSE
    /\ isGameLost' = FALSE
    /\ humanity' = 50
    /\ kiControl' = 50
    /\ lastOp' = "startGame"
    /\ UNCHANGED <<pending, lastClamp, eatVars, worldVars, fieldVars, skillVars, isPaused>>

\* resetGame
ResetGame ==
    /\ pending = <<>>
    /\ humanity' = 50
    /\ kiControl' = 50
    /\ isGameRunning' = FALSE
    /\ isGameWon' = FALSE
    /\ isGameLost' = FALSE
    /\ skills' = [id \in SkillIds |->
                     [skills[id] EXCEPT !.currentCooldown = 0, !.isActive = FALSE]]
    /\ lastOp' = "resetGame"
    /\ UNCHANGED <<pending, lastClamp, eatVars, worldVars, fieldVars, now, skillCall,
                   isPaused>>

\* a direct call of updateHumanity
DirectUpdateHumanity ==
    /\ pending = <<>>
    /\ \E d \in DirectDeltas : UpdateHumanity(d)
    /\ UNCHANGED <<pending, eatVars, worldVars, fieldVars, skillVars, isPaused>>

\* a direct call of updateKIControl
DirectUpdateKIControl ==
    /\ pending = <<>>
    /\ \E d \in DirectDeltas : UpdateKIControl(d)
    /\ UNCHANGED <<pending, eatVars, worldVars, fieldVars, skillVars, isPaused>>

\* togglePause
TogglePause ==
    /\ isPaused' = ~isPaused
    /\ lastOp' = "togglePause"
    /\ UNCHANGED <<storeVars, eatVars, worldVars, fieldVars, skillVars>>

\* the skill after a successful activateSkill at time t
Activated(skill, t) ==
    [skill EXCEPT !.currentCooldown = skill.cooldown, !.isActive = TRUE,
                  !.activateTime = t]

\* activateSkill(skillId): the skills after the call
ActivateAll(sk, skillId, t) ==
    [id \in DOMAIN sk |-> Activated(sk[id], t)]
Activate(sk, skillId, t) ==
    [id \in DOMAIN sk |-> IF id = skillId THEN Activated(sk[id], t) ELSE sk[id]]

\* activateSkill(skillId): TRUE when it returns false
ActivateRefused(sk, skillId) ==
    \/ skillId \notin DOMAIN sk
    \/ sk[skillId].currentCooldown > 0

\* activateSkill(skillId), as called by the skill keys of usePlayerControls
ActivateSkill ==
    /\ \E skillId \in SkillCalls :
          /\ skills' = IF ActivateRefused(skills, skillId) THEN skills
                       ELSE Activate(skills, skillId, now)
          /\ skillCall' = [id |-> skillId,
                           result |-> ~ActivateRefused(skills, skillId),
                           before |-> IF skillId \in DOMAIN skills
                                      THEN skills[skillId].activateTime
                                      ELSE NoTime]
    /\ lastOp' = "activateSkill"
    /\ UNCHANGED <<storeVars, eatVars, worldVars, fieldVars, now, isPaused>>

\* how long a skill stays active
StealthDuration == 5000
SkillDurationBeyondCooldown(id) == 2 * SkillCooldown(id)
SkillDuration(id) == IF id = "stealth" THEN StealthDuration ELSE 0

\* updateSkillCooldowns(deltaTime) on one skill at time t
UpdateSkillKeepsCooldown(id, skill, deltaTime, t) ==
    LET newCooldown == Max(0, skill.currentCooldown - deltaTime)
        over == /\ skill.isActive
                /\ skill.activateTime # NoTime
                /\ t - skill.activateTime >= SkillDuration(id)
    IN [skill EXCEPT
          !.currentCooldown = newCooldown,
          !.isActive = IF over THEN FALSE ELSE skill.isActive]
UpdateSkill(id, skill, deltaTime, t) ==
    LET newCooldown == Max(0, skill.currentCooldown - deltaTime)
        over == /\ skill.isActive
                /\ skill.activateTime # NoTime
                /\ t - skill.activateTime >= SkillDuration(id)
    IN [skill EXCEPT
          !.currentCooldown = IF over THEN skill.cooldown ELSE newCooldown,
          !.isActive = IF over THEN FALSE ELSE skill.isActive]

\* updateSkillCooldowns(deltaTime)
UpdateSkillCooldowns(sk, deltaTime, t) ==
    [id \in DOMAIN sk |-> UpdateSkill(id, sk[id], deltaTime, t)]

\* the interval callback of GameCanvas: a cooldown tick when the game is
\* running and not paused
SkillTick ==
    /\ isGameRunning
    /\ ~isPaused
    /\ skills' = UpdateSkillCooldowns(skills, SkillTickTime, now)
    /\ lastOp' = "skillTick"
    /\ UNCHANGED <<storeVars, eatVars, worldVars, fieldVars, now, skillCall, isPaused>>

\* setInterval(callback, 100): the interval callback fires one period or more
\* after its last firing, and runs a cooldown tick when the game is running
\* and not paused
SkillInterval ==
    /\ \E late \in 0..MaxLate :
          /\ now + (1 + late) * SkillTickTime <= StartTime + MaxClock * SkillTickTime
          /\ now' = now + (1 + late) * SkillTickTime
    /\ skills' = IF isGameRunning /\ ~isPaused
                 THEN UpdateSkillCooldowns(skills, SkillTickTime, now')
                 ELSE skills
    /\ lastOp' = IF isGameRunning /\ ~isPaused THEN "skillTick" ELSE "skillIdle"
    /\ UNCHANGED <<storeVars, eatVars, worldVars, fieldVars, skillCall, isPaused>>

\* time passes
AdvanceTime ==
    /\ now < StartTime + MaxTimeSteps * TimeStep
    /\ now' = now + TimeStep
    /\ lastOp' = "advanceTime"
    /\ UNCHANGED <<storeVars, eatVars, worldVars, fieldVars, skills, skillCall, isPaused>>

-----------------------------------------------------------------------------
(* balanceMechanics.ts                                                     *)

ActionTypes == {"eat_pellet", "eat_drone", "recruit_civ", "lose_to_drone",
                "hack_node", "skill_use"}
EntityTypes == {"PLAYER", "DRONE", "NODE", "other"}

\* the meter updates processBalanceAction(action) issues, in order; r1 and
\* r2 are the outcomes of its Math.random() tests
BalanceUpdates(type, entityType, r1, r2) ==
    CASE type = "eat_pellet" ->
            <<(<<"humanity", 5>>)>> \o
            (IF r1 THEN <<(<<"kiControl", IF r2 THEN 2 ELSE -1>>)>> ELSE <<>>)
      [] type = "eat_drone" -> << <<"kiControl", -10>>, <<"humanity", 2>> >>
      [] type = "recruit_civ" -> <<(<<"humanity", 8>>)>>
      [] type = "lose_to_drone" -> << <<"humanity", -10>>, <<"kiControl", 5>> >>
      [] type = "hack_node" -> << <<"kiControl", -20>>, <<"humanity", 5>> >>
      [] type = "skill_use" ->
            CASE entityType = "PLAYER" ->
                    IF r1 THEN << <<"humanity", 10>>, <<"kiControl", -5>> >>
                    ELSE <<(<<"humanity", -5>>)>>
              [] entityType = "DRONE" -> <<(<<"kiControl", -10>>)>>
              [] entityType = "NODE" ->
                    << <<"humanity", -10>>, <<"kiControl", -15>> >>
              [] OTHER -> <<>>

\* the update lists of all actions and all outcomes of the random tests
BalanceOutcomes ==
    {BalanceUpdates(type, entityType, r1, r2) :
        type \in ActionTypes, entityType \in EntityTypes, r1 \in BOOLEAN,
        r2 \in BOOLEAN}

\* processBalanceAction(action): issues its first meter update; the
\* remaining ones are issued by ContinueBalanceAction before anything else
\* runs
ProcessBalanceAction ==
    /\ pending = <<>>
    /\ \E us \in BalanceOutcomes :
          /\ us # <<>>
          /\ ApplyUpdate(Head(us))
          /\ pending' = Tail(us)
    /\ UNCHANGED <<eatVars, worldVars, fieldVars, skillVars, isPaused>>

ContinueBalanceAction ==
    /\ pending # <<>>
    /\ ApplyUpdate(Head(pending))
    /\ pending' = Tail(pending)
    /\ UNCHANGED <<eatVars, worldVars, fieldVars, skillVars, isPaused>>

-----------------------------------------------------------------------------
(* Cell.canEat (entities.ts)                                               *)

\* this.mass > otherCell.mass * 1.1
CanEatOrEqual(mass, otherMass) == 10 * mass >= 11 * otherMass
CanEat(mass, otherMass) == 10 * mass > 11 * otherMass

\* A.canEat(B) and B.canEat(A) for the two cells
CallCanEat ==
    /\ lastOp # "canEat"
    /\ eatAB' = CanEat(cellA, cellB)
    /\ eatBA' = CanEat(cellB, cellA)
    /\ lastOp' = "canEat"
    /\ UNCHANGED <<cellA, cellB, storeVars, worldVars, fieldVars, skillVars, isPaused>>

\* two other cells are looked at
PickCells ==
    /\ lastOp = "canEat"
    /\ \E a, b \in 1..MaxEatMass : cellA' = a /\ cellB' = b
    /\ eatAB' = FALSE
    /\ eatBA' = FALSE
    /\ lastOp' = "pickCells"
    /\ UNCHANGED <<storeVars, worldVars, fieldVars, skillVars, isPaused>>

-----------------------------------------------------------------------------
(* Masses: binary fractions n / 2^e, kept normalised (n odd or e = 0)      *)

RECURSIVE Pow2(_)
Pow2(k) == IF k = 0 THEN 1 ELSE 2 * Pow2(k - 1)

RECURSIVE Norm(_, _)
Norm(n, e) == IF e > 0 /\ n % 2 = 0 THEN Norm(n \div 2, e - 1)
              ELSE [n |-> n, e |-> e]

\* the mass with integer value k
M(k) == [n |-> k, e |-> 0]
\* the numerator of mass m over the denominator 2^e (e >= m.e)
Scaled(m, e) == m.n * Pow2(e - m.e)
Plus(a, b) == LET e == Max(a.e, b.e) IN Norm(Scaled(a, e) + Scaled(b, e), e)
Minus(a, b) == LET e == Max(a.e, b.e) IN Norm(Scaled(a, e) - Scaled(b, e), e)
Less(a, b) == LET e == Max(a.e, b.e) IN Scaled(a, e) < Scaled(b, e)
\* mass / 2
Half(m) == Norm(m.n, m.e + 1)
\* Math.floor(mass)
Floor(m) == m.n \div Pow2(m.e)

RECURSIVE SumMasses(_)
SumMasses(ms) == IF ms = <<>> THEN M(0) ELSE Plus(Head(ms), SumMasses(Tail(ms)))

-----------------------------------------------------------------------------
(* Cell (entities.ts)                                                      *)

\* a new cell: constructor of Cell
NewCell(mass) == [mass |-> mass, lastHungerTick |-> 0]

\* Cell.canEat on two cells
Eats(cell, otherCell) ==
    LET e == Max(cell.mass.e, otherCell.mass.e)
    IN CanEat(Scaled(cell.mass, e), Scaled(otherCell.mass, e))

\* Cell.update, hunger part: once a second of tick time the cell loses
\* mass * hungerRate * 0.001 (= mass / 10000, computed here in whole mass
\* units), floored at the minimum mass 5
CellUpdate(cell, deltaTime) ==
    LET tick == cell.lastHungerTick + deltaTime
        hungerLoss == M(Floor(cell.mass) \div HungerDivisor)
        left == Minus(cell.mass, hungerLoss)
    IN IF tick >= HungerPeriod
       THEN [cell EXCEPT !.mass = IF Less(left, M(MinMass)) THEN M(MinMass)
                                  ELSE left,
                         !.lastHungerTick = 0]
       ELSE [cell EXCEPT !.lastHungerTick = tick]

\* Cell.addMass / PlayerCell.addMass / BotCell.addMass
AddMass(cell, amount) == [cell EXCEPT !.mass = Plus(cell.mass, amount)]

-----------------------------------------------------------------------------
(* PlayerCell (entities.ts)                                                *)

\* the masses of the main body and of the siblings, main body first:
\* getAllCells
AllMasses(p) == <<p.mass>> \o [i \in 1..Len(p.splitCells) |-> p.splitCells[i].mass]

\* getTotalMass
GetTotalMass(p) == SumMasses(AllMasses(p))

RequiredMass(p) == BaseRequiredMass + p.splitLevel * RequiredMassStep
MaxCells(p) == Pow2(p.splitLevel + 1)

\* the guard of split(): TRUE when split() returns false
SplitRefusedNoCap(p) ==
    \/ p.splitCooldown > 0
    \/ Less(p.mass, M(RequiredMass(p)))
    \/ Len(p.splitCells) >= MaxCells(p)
SplitRefused(p) ==
    \/ p.splitCooldown > 0
    \/ Less(p.mass, M(RequiredMass(p)))
    \/ Len(p.splitCells) >= MaxCells(p)
    \/ p.splitLevel >= maxSplitLevel

\* canSplit()
CanSplitIgnoringCooldown(p) ==
    /\ ~Less(p.mass, M(RequiredMass(p)))
    /\ Len(p.splitCells) < MaxCells(p)
    /\ p.splitLevel < maxSplitLevel
CanSplit(p) ==
    /\ p.splitCooldown <= 0
    /\ ~Less(p.mass, M(RequiredMass(p)))
    /\ Len(p.splitCells) < MaxCells(p)
    /\ p.splitLevel < maxSplitLevel

\* getSplitCooldown(), getFusionTime() at split level level
GetSplitCooldown(level) == IF level > 0 THEN SplitCooldownTime ELSE 0
GetFusionTime(level) == BaseFusionTime * Pow2(level)

\* the id of the entity created first: `player_${entityId++}`
PlayerId == <<0>>

\* createSplitCell(`${id}_split_${Date.now()}`, ..., mass, parent): the id of
\* the cell it is split off, followed by the time of the split, which is
\* given here by the split level reached
CreateSplitCell(id, stamp, mass) ==
    [id |-> Append(id, stamp), mass |-> mass, lastHungerTick |-> 0]

\* the siblings after a split: the existing ones with half their mass, one
\* new cell per existing sibling with the other half, and the cell split off
\* the main body
SplitCellsKeepSiblings(p) ==
    LET old == p.splitCells
        stamp == p.splitLevel + 1
    IN old
       \o [i \in 1..Len(old) |->
              CreateSplitCell(old[i].id, stamp, Half(old[i].mass))]
       \o <<CreateSplitCell(p.id, stamp, Half(p.mass))>>
SplitCells(p) ==
    LET old == p.splitCells
        stamp == p.splitLevel + 1
    IN [i \in 1..Len(old) |-> [old[i] EXCEPT !.mass = Half(old[i].mass)]]
       \o [i \in 1..Len(old) |->
              CreateSplitCell(old[i].id, stamp, Half(old[i].mass))]
       \o <<CreateSplitCell(p.id, stamp, Half(p.mass))>>

\* split(): the player after the call (unchanged when split() returns false)
Split(p) ==
    IF SplitRefused(p) THEN p
    ELSE [p EXCEPT !.mass = Half(p.mass),
                   !.splitCells = SplitCells(p),
                   !.splitLevel = p.splitLevel + 1,
                   !.splitCooldown = GetSplitCooldown(p.splitLevel + 1),
                   !.fusionCooldown = GetFusionTime(p.splitLevel + 1),
                   !.splitDuration = GetFusionTime(p.splitLevel + 1)]

\* the mass fuseSplitCells gives the single body: this.mass plus the mass of
\* every split cell
RECURSIVE FuseMassFrom(_, _, _)
FuseMassFrom(total, cells, i) ==
    IF i > Len(cells) THEN total
    ELSE FuseMassFrom(Plus(total, cells[i].mass), cells, i + 1)
FuseMassSkipFirst(p) == FuseMassFrom(p.mass, p.splitCells, 2)
FuseMass(p) == FuseMassFrom(p.mass, p.splitCells, 1)

\* fuseSplitCells()
FuseSplitCells(p) ==
    IF Len(p.splitCells) = 0 THEN p
    ELSE [p EXCEPT !.mass = FuseMass(p),
                   !.splitLevel = 0,
                   !.splitCooldown = 0,
                   !.fusionCooldown = 0,
                   !.splitDuration = BaseFusionTime,
                   !.splitCells = <<>>,
                   !.isMerging = FALSE]

\* startMergeAnimation()
StartMergeAnimation(p) ==
    IF p.isMerging THEN p
    ELSE [p EXCEPT !.isMerging = TRUE,
                   !.mergeAnimations = Append(p.mergeAnimations, 0)]

\* updateAnimations(deltaTime), merge animations: every animation advances by
\* deltaTime; one that reaches its duration calls fuseSplitCells and is
\* dropped.  An animation is the time it has run.
RECURSIVE UpdateMergeFrom(_, _, _, _)
UpdateMergeFrom(p, anims, kept, deltaTime) ==
    IF anims = <<>> THEN [p EXCEPT !.mergeAnimations = kept]
    ELSE LET ran == Head(anims) + deltaTime IN
         IF ran >= MergeDuration
         THEN UpdateMergeFrom(FuseSplitCells(p), Tail(anims), kept, deltaTime)
         ELSE UpdateMergeFrom(p, Tail(anims), Append(kept, ran), deltaTime)
UpdateAnimations(p, deltaTime) ==
    UpdateMergeFrom(p, p.mergeAnimations, <<>>, deltaTime)

\* PlayerCell.update, first part: Cell.update of the main body and of every
\* split cell
UpdateCells(p, deltaTime) ==
    LET main == CellUpdate([mass |-> p.mass, lastHungerTick |-> p.lastHungerTick],
                           deltaTime)
    IN [p EXCEPT !.mass = main.mass,
                 !.lastHungerTick = main.lastHungerTick,
                 !.splitCells = [i \in 1..Len(p.splitCells) |->
                                    CellUpdate(p.splitCells[i], deltaTime)]]

\* PlayerCell.update, last part: the two cooldowns run down and the merge
\* starts once the fusion cooldown is over
UpdateCooldowns(p, deltaTime) ==
    LET q == [p EXCEPT
                !.splitCooldown = IF p.splitCooldown > 0
                                  THEN p.splitCooldown - deltaTime
                                  ELSE p.splitCooldown,
                !.fusionCooldown = IF p.fusionCooldown > 0
                                   THEN p.fusionCooldown - deltaTime
                                   ELSE p.fusionCooldown]
    IN IF Len(q.splitCells) > 0 /\ q.fusionCooldown <= 0 /\ ~q.isMerging
       THEN StartMergeAnimation(q)
       ELSE q

\* PlayerCell.update(deltaTime)
PlayerUpdate(p, deltaTime) ==
    UpdateCooldowns(UpdateAnimations(UpdateCells(p, deltaTime), deltaTime),
                    deltaTime)

\* a merge animation of p completes within deltaTime while split cells exist
FusesNow(p, deltaTime) ==
    /\ Len(p.splitCells) > 0
    /\ \E i \in 1..Len(p.mergeAnimations) :
          p.mergeAnimations[i] + deltaTime >= MergeDuration

\* removeSplitCells(cellIds): cells is the sequence of all bodies of the
\* pass, siblings the positions in it of the current split cells; a cell
\* stays unless its id is among the eaten ones
RECURSIVE RemoveSplitCells(_, _)
RemoveSplitCells(siblings, eaten) ==
    IF siblings = <<>> THEN <<>>
    ELSE IF Head(siblings) \in eaten
         THEN RemoveSplitCells(Tail(siblings), eaten)
         ELSE <<Head(siblings)>> \o RemoveSplitCells(Tail(siblings), eaten)

\* resetSplitLevel()
ResetKeepsLevel(p) == [p EXCEPT !.fusionCooldown = 0, !.splitCooldown = 0]
ResetSplitLevel(p) ==
    [p EXCEPT !.splitLevel = 0, !.fusionCooldown = 0, !.splitCooldown = 0]

\* promoteSplitCellToMain(splitCell): the player takes over the mass of the
\* split cell
PromoteSplitCellToMain(p, splitCell) ==
    [p EXCEPT !.id = splitCell.id, !.mass = splitCell.mass]

-----------------------------------------------------------------------------
(* checkCollisions (GameCanvas.tsx)                                        *)

\* a new food pellet: constructor of FoodPellet
NewPellet(id) == [id |-> id, respawnTime |-> 0]

\* FoodPellet.update(deltaTime): the respawn time runs down; at its end the
\* pellet gets a new position
PelletUpdate(pellet, deltaTime) ==
    IF pellet.respawnTime > 0
    THEN [pellet EXCEPT !.respawnTime = Max(0, pellet.respawnTime - deltaTime)]
    ELSE pellet

\* FoodPellet.getEaten()
GetEaten(pellet) == [pellet EXCEPT !.respawnTime = PelletRespawnTime]

\* the pellets of a pass after getEaten of the first eaten of them, and the
\* filter that keeps in pelletsRef the pellets not in pelletsToRemove
MarkEaten(ps, eaten) ==
    [k \in 1..Len(ps) |-> IF k <= eaten THEN GetEaten(ps[k]) ELSE ps[k]]
FilterPellets(ps, eaten) == SubSeq(ps, eaten + 1, Len(ps))

\* player cells vs food pellets: every cell of eaters overlaps one pellet and
\* gains its mass
EatPellets(cells, eaters) ==
    [i \in 1..Len(cells) |->
        IF i \in eaters THEN AddMass(cells[i], M(PelletMass)) ELSE cells[i]]

\* startFusionCooldownReduction() called times times, once per body of the
\* player that lies on the fusion triangle: splitDuration is halved and so
\* is a fusion cooldown that is running (the times of the model stay whole)
RECURSIVE StartFusionCooldownReduction(_, _)
StartFusionCooldownReduction(p, times) ==
    IF times = 0 THEN p
    ELSE StartFusionCooldownReduction(
            [p EXCEPT !.splitDuration = @ \div 2,
                      !.fusionCooldown = IF @ > 0 THEN @ \div 2 ELSE @],
            times - 1)

\* one overlapping pair of player cell i and bot j: the player cell eats the
\* bot, or else the bot eats the player cell, or else nothing happens
MeetBot(st, i, j) ==
    IF Eats(st.cells[i], st.bots[j])
    THEN [st EXCEPT !.cells[i] = AddMass(@, st.bots[j].mass),
                    !.botsToRemove = @ \cup {j}]
    ELSE IF Eats(st.bots[j], st.cells[i])
    THEN [st EXCEPT !.bots[j] = AddMass(@, st.cells[i].mass),
                    !.playerCellsToRemove = @ \cup {i},
                    !.eaten = Append(@, [cell |-> i,
                                         cellMass |-> st.cells[i].mass,
                                         botMass |-> st.bots[j].mass])]
    ELSE st

\* player cells vs bots: playerCells.forEach(currentBots.forEach(...))
RECURSIVE PlayerVsBots(_, _, _, _)
PlayerVsBots(st, i, j, overlap) ==
    IF i > Len(st.cells) THEN st
    ELSE IF j > Len(st.bots) THEN PlayerVsBots(st, i + 1, 1, overlap)
    ELSE PlayerVsBots(IF <<i, j>> \in overlap THEN MeetBot(st, i, j) ELSE st,
                      i, j + 1, overlap)

\* one overlapping pair of player cells i < j: the two are pushed apart, which
\* changes their positions only; no mass moves and no cell is marked
AbsorbCell(st, i, j) ==
    [st EXCEPT !.cells[i] = AddMass(@, st.cells[j].mass),
               !.playerCellsToRemove = @ \cup {j}]
PushApart(st, i, j) == st

\* player cells vs player cells: for i, for j = i + 1 .. length - 1
RECURSIVE PlayerVsPlayer(_, _, _, _)
PlayerVsPlayer(st, i, j, selfOverlap) ==
    IF i > Len(st.cells) THEN st
    ELSE IF j > Len(st.cells) THEN PlayerVsPlayer(st, i + 1, i + 2, selfOverlap)
    ELSE PlayerVsPlayer(IF {i, j} \in selfOverlap THEN PushApart(st, i, j)
                        ELSE st,
                        i, j + 1, selfOverlap)

\* one ordered pair of bots of the bot-vs-bot pass
MeetBots(st, i, j, botOverlap) ==
    IF i = j \/ i \in st.botsToRemove \/ j \in st.botsToRemove THEN st
    ELSE IF {i, j} \notin botOverlap THEN st
    ELSE IF Eats(st.bots[i], st.bots[j])
    THEN [st EXCEPT !.bots[i] = AddMass(@, st.bots[j].mass),
                    !.botsToRemove = @ \cup {j}]
    ELSE IF Eats(st.bots[j], st.bots[i])
    THEN [st EXCEPT !.bots[j] = AddMass(@, st.bots[i].mass),
                    !.botsToRemove = @ \cup {i}]
    ELSE st

\* bots vs bots: currentBots.forEach(currentBots.forEach(...))
RECURSIVE BotVsBots(_, _, _, _)
BotVsBots(st, i, j, botOverlap) ==
    IF i > Len(st.bots) THEN st
    ELSE IF j > Len(st.bots) THEN BotVsBots(st, i + 1, 1, botOverlap)
    ELSE BotVsBots(MeetBots(st, i, j, botOverlap), i, j + 1, botOverlap)

\* the bots that stay in botsRef
RECURSIVE RemoveBots(_, _, _)
RemoveBots(bs, i, botsToRemove) ==
    IF i > Len(bs) THEN <<>>
    ELSE (IF i \in botsToRemove THEN <<>> ELSE <<bs[i]>>)
         \o RemoveBots(bs, i + 1, botsToRemove)

\* the pairs of bots, and of player cells
BotPairs(n) == {s \in SUBSET (1..n) : Cardinality(s) = 2}
CellPairs(n) == {s \in SUBSET (1..n) : Cardinality(s) = 2}

\* positions i+1 .. n of the bodies of a pass
Positions(i, n) == [k \in 1..(n - i) |-> i + k]

\* handling of playerCellsToRemove: promotion of the first split cell when the
\* main cell was eaten, removal of the eaten split cells, reset of the split
\* level; lost is TRUE when the pass calls endGame(false)
RemovePlayerCells(p, cells, playerCellsToRemove) ==
    LET n == Len(cells)
        \* the player with the masses the pass has given its cells
        q == [p EXCEPT !.mass = cells[1].mass,
                       !.lastHungerTick = cells[1].lastHungerTick,
                       !.splitCells = Tail(cells)]
        mainCellEaten == 1 \in playerCellsToRemove
    IN IF playerCellsToRemove = {} THEN [player |-> q, lost |-> FALSE]
       ELSE IF mainCellEaten /\ n = 1 THEN [player |-> q, lost |-> TRUE]
       ELSE LET promoted == IF mainCellEaten
                            THEN PromoteSplitCellToMain(q, cells[2]) ELSE q
                siblings == IF mainCellEaten THEN Positions(2, n)
                            ELSE Positions(1, n)
                left == RemoveSplitCells(siblings, playerCellsToRemove)
                r == [promoted EXCEPT
                        !.splitCells = [k \in 1..Len(left) |-> cells[left[k]]]]
            IN [player |-> IF Len(left) = 0 THEN ResetSplitLevel(r) ELSE r,
                lost |-> FALSE]

\* checkCollisions(): p, bs, np are the player, the bots and the number of
\* pellets after the updates of the tick; the overlaps of the tick are
\* eaters (player cells on a pellet), shared (they are on one and the same
\* pellet), overlap (pairs of player cell and bot), selfOverlap (pairs of
\* player cells), botOverlap (pairs of bots) and fusionTouch (number of
\* player cells on the fusion triangle)
CheckCollisions(p0, bs, np, eaters, shared, overlap, selfOverlap, botOverlap, fusionTouch) ==
    LET p == StartFusionCooldownReduction(p0, fusionTouch)
        cells == EatPellets(<<[mass |-> p.mass,
                               lastHungerTick |-> p.lastHungerTick]>>
                            \o p.splitCells, eaters)
        pelletsToRemove == IF eaters = {} THEN 0
                           ELSE IF shared THEN 1 ELSE Cardinality(eaters)
        st0 == [cells |-> cells, bots |-> bs, botsToRemove |-> {},
                playerCellsToRemove |-> {}, eaten |-> <<>>]
        st1 == PlayerVsBots(st0, 1, 1, overlap)
        st2 == PlayerVsPlayer(st1, 1, 2, selfOverlap)
        st3 == BotVsBots(st2, 1, 1, botOverlap)
        rem == RemovePlayerCells(p, st3.cells, st3.playerCellsToRemove)
    IN [player |-> rem.player,
        lost |-> rem.lost,
        bots |-> RemoveBots(st3.bots, 1, st3.botsToRemove),
        pellets |-> np - pelletsToRemove,
        eaten |-> st3.eaten]

\* the result of a tick without collision detection (the first 3 seconds)
NoCollisions(p, bs, np) ==
    [player |-> p, lost |-> FALSE, bots |-> bs, pellets |-> np, eaten |-> <<>>]

-----------------------------------------------------------------------------
(* The tick and the split key (GameCanvas.tsx)                             *)

NoFusion == [bodies |-> <<>>, mass |-> M(0)]

\* a tick in which nothing overlaps
Quiet == [eaters |-> {}, shared |-> FALSE, overlap |-> {}, selfOverlap |-> {},
          botOverlap |-> {}, fusionTouch |-> 0]

\* the overlaps a tick can see with n player cells, m bots and np pellets:
\* nothing, or player cells on pellets, or cells meeting bots and bots
\* meeting bots, or player cells lying on each other with a bot nearby
Encounters(n, m, np) ==
    LET touch == 1..Min(MaxTouch, n) IN
    {Quiet}
    \cup {[Quiet EXCEPT !.eaters = e] :
            e \in {x \in SUBSET touch : x # {} /\ Cardinality(x) <= np}}
    \cup {[Quiet EXCEPT !.eaters = e, !.shared = TRUE] :
            e \in {x \in SUBSET touch : Cardinality(x) >= 2 /\ np >= 1}}
    \cup {[Quiet EXCEPT !.overlap = o, !.botOverlap = b] :
            o \in {x \in SUBSET (touch \X (1..m)) : Cardinality(x) <= MaxPairs},
            b \in SUBSET BotPairs(m)}
    \cup {[Quiet EXCEPT !.selfOverlap = s, !.overlap = o] :
            s \in SUBSET CellPairs(Min(MaxTouch, n)) \ {{}},
            o \in {x \in SUBSET (touch \X (1..m)) : Cardinality(x) <= 1}}

\* the overlaps of a tick in which the main cell of the player, and no other
\* cell, meets at least one bot, m being the number of bots
MainMeetsBots(m) ==
    {[Quiet EXCEPT !.overlap = o] :
        o \in {x \in SUBSET ({1} \X (1..m)) : Cardinality(x) \in 1..MaxPairs}}

\* the overlaps of a tick in which nothing but the fusion triangle is met,
\* by up to MaxTouch of the n player cells
FusionTouches(n) ==
    {[Quiet EXCEPT !.fusionTouch = k] : k \in 0..Min(MaxTouch, n)}

\* useGameLoop onUpdate(deltaTime): update of the player and of the bots,
\* then checkCollisions; the overlaps are those of one of the families
\* "any", "feast", "fusion"
TickOn(family) ==
    /\ isGameRunning
    /\ \E deltaTime \in DeltaTimes :
         LET hungry == UpdateCells(player, deltaTime)
             fuses == FusesNow(hungry, deltaTime)
             p == PlayerUpdate(player, deltaTime)
             bs == [j \in 1..Len(bots) |-> CellUpdate(bots[j], deltaTime)]
             ps == [k \in 1..Len(pellets) |-> PelletUpdate(pellets[k], deltaTime)]
             since == Min(GracePeriod, sinceStart + deltaTime)
         IN \E enc \in CASE family = "feast" -> MainMeetsBots(Len(bs))
                          [] family = "fusion" ->
                                FusionTouches(Len(p.splitCells) + 1)
                          [] OTHER -> Encounters(Len(p.splitCells) + 1,
                                                 Len(bs), Len(ps)) :
              /\ since < GracePeriod => enc = Quiet
              /\ LET r == IF since < GracePeriod
                          THEN NoCollisions(p, bs, Len(ps))
                          ELSE CheckCollisions(p, bs, Len(ps), enc.eaters,
                                               enc.shared, enc.overlap,
                                               enc.selfOverlap,
                                               enc.botOverlap, enc.fusionTouch)
                 IN /\ cellsEaten + Len(r.eaten) <= MaxEaten
                    /\ power.pickups + enc.fusionTouch <= MaxPickups
                    /\ power' = [power EXCEPT !.pickups = @ + enc.fusionTouch]
                    /\ cellsEaten' = cellsEaten + Len(r.eaten)
                    /\ player' = r.player
                    /\ bots' = r.bots
                    /\ pellets' = FilterPellets(MarkEaten(ps, Len(ps) - r.pellets),
                                                Len(ps) - r.pellets)
                    /\ sinceStart' = since
                    /\ isGameRunning' = ~r.lost
                    /\ isGameLost' = (IF r.lost THEN TRUE ELSE isGameLost)
                    /\ isGameWon' = (IF r.lost THEN FALSE ELSE isGameWon)
                    /\ tickLog' =
                         [fusion |-> IF fuses
                                     THEN [bodies |-> AllMasses(hungry),
                                           mass |-> UpdateAnimations(hungry, deltaTime).mass]
                                     ELSE NoFusion,
                          selfTouch |-> enc.selfOverlap # {},
                          before |-> AllMasses(p),
                          eaten |-> r.eaten]
    /\ lastOp' = "tick"
    /\ UNCHANGED <<splitResult, humanity, kiControl, pending, lastClamp, eatVars,
                   arena, skillVars, isPaused>>

\* a tick with any of the overlaps of Encounters
Tick == TickOn("any")

\* a tick in which the main cell of the player meets at least one bot
FeastTick == TickOn("feast")

\* a tick in which player cells meet nothing but the fusion triangle
FusionTick == TickOn("fusion")

\* a call of PlayerCell.split()
SplitCall ==
    /\ player' = Split(player)
    /\ splitResult' = ~SplitRefused(player)
    /\ lastOp' = "split"
    /\ UNCHANGED <<bots, pellets, sinceStart, cellsEaten, tickLog, storeVars,
                   eatVars, fieldVars, skillVars, isPaused>>

\* handleKeyDown, Space: split() when canSplit()
KeySpace ==
    /\ player' = (IF CanSplit(player) THEN Split(player) ELSE player)
    /\ splitResult' = (CanSplit(player) /\ ~SplitRefused(player))
    /\ lastOp' = "keySpace"
    /\ UNCHANGED <<bots, pellets, sinceStart, cellsEaten, tickLog, storeVars,
                   eatVars, fieldVars, skillVars, isPaused>>

-----------------------------------------------------------------------------
(* Positions: cells on one horizontal line of the world (equal y, inside    *)
(* the bounds), their x coordinates as binary fractions                    *)

\* the world extents of the boundary clamp
WorldWidth == 4000

\* the cells of the arena: the main cell of the player, one sibling and a
\* bot too small to eat either, with their x coordinates at the start
ArenaCells == <<[owner |-> "player", mass |-> 16, x |-> 24],
               [owner |-> "player", mass |-> 16, x |-> 48],
               [owner |-> "bot", mass |-> 9, x |-> 8]>>
\* the bodies of a player about to fuse: two to four cells of mass 16, each
\* at one of two x coordinates
FuseInputs ==
    UNION {[1..n -> {[owner |-> "player", mass |-> 16, x |-> x] :
                        x \in {60, 120}}] : n \in 2..MaxFuseBodies}
\* the bodies of a player right after a split: the main body and the cell
\* split off it at one position, after the first split and after the second
SplitInputs ==
    {<<[owner |-> "player", mass |-> 16, x |-> 60],
       [owner |-> "player", mass |-> 16, x |-> 60]>>,
     <<[owner |-> "player", mass |-> 16, x |-> 60],
       [owner |-> "player", mass |-> 16, x |-> 92],
       [owner |-> "player", mass |-> 16, x |-> 92],
       [owner |-> "player", mass |-> 16, x |-> 60]>>}
\* where the mouse can point and where a bot can head for
ArenaTargets == {0, 16}
\* the way speed * deltaTime / 1000 of a cell in one tick
ArenaSteps == {0, 16}
\* number of ticks looked at
MaxArenaTicks == 3

Sqrt(m) == CHOOSE r \in 0..m : r * r = m
\* Cell.updateSizeFromMass
SizeOf(mass) == 2 * Sqrt(mass)

Neg(a) == [n |-> 0 - a.n, e |-> a.e]
AbsOf(a) == IF a.n < 0 THEN Neg(a) ELSE a

\* Cell.update, movement: towards the target by step if it is further away
\* than 1
MoveCell(cell, step) ==
    LET dx == Minus(M(cell.target), cell.x)
    IN IF Less(M(1), AbsOf(dx))
       THEN IF dx.n < 0 THEN Minus(cell.x, M(step)) ELSE Plus(cell.x, M(step))
       ELSE cell.x

\* Cell.update, boundary clamp
ClampToWorld(x, size) ==
    LET low == M(size)
        high == M(WorldWidth - size)
        capped == IF Less(high, x) THEN high ELSE x
    IN IF Less(capped, low) THEN low ELSE capped

\* Cell.update: movement, hunger, boundary clamp
ArenaCellUpdate(cell, step) ==
    LET mass == Max(MinMass, cell.mass - cell.mass \div HungerDivisor)
    IN [cell EXCEPT !.mass = mass,
                    !.x = ClampToWorld(MoveCell(cell, step), SizeOf(mass))]

\* the pairs of a set of pairs of numbers in the order of two nested loops
RECURSIVE InLoopOrder(_)
InLoopOrder(pairs) ==
    IF pairs = {} THEN <<>>
    ELSE LET first == CHOOSE p \in pairs :
                         \A q \in pairs : p[1] < q[1] \/ (p[1] = q[1] /\ p[2] <= q[2])
         IN <<first>> \o InLoopOrder(pairs \ {first})

\* checkCollisions, player cells against bots: a player cell closer to a bot
\* than 0.7 * (size + size) eats it if it can (the bots of the arena cannot
\* eat a player cell); the bot stays in the list until the end of the pass
RECURSIVE ArenaPlayerVsBots(_, _, _)
ArenaPlayerVsBots(st, pairs, k) ==
    IF k > Len(pairs) THEN st
    ELSE LET i == pairs[k][1]
             j == pairs[k][2]
             playerCell == st.cells[i]
             bot == st.cells[j]
             distance == AbsOf(Minus(playerCell.x, bot.x))
             sizes == SizeOf(playerCell.mass) + SizeOf(bot.mass)
         IN ArenaPlayerVsBots(
               IF /\ Less(Norm(10 * distance.n, distance.e), M(7 * sizes))
                  /\ CanEat(playerCell.mass, bot.mass)
               THEN [cells |-> [st.cells EXCEPT ![i].mass = @ + bot.mass],
                     botsToRemove |-> st.botsToRemove \cup {j}]
               ELSE st,
               pairs, k + 1)

\* checkCollisions, player cells against each other: two cells closer than
\* size + size are pushed apart by half of what is missing, each its own way
RECURSIVE PushSecondCell(_, _, _)
PushSecondCell(cells, pairs, k) ==
    IF k > Len(pairs) THEN cells
    ELSE LET i == pairs[k][1]
             j == pairs[k][2]
             dx == Minus(cells[j].x, cells[i].x)
             minDistance == M(SizeOf(cells[i].mass) + SizeOf(cells[j].mass))
             pushDistance == Half(Minus(minDistance, AbsOf(dx)))
             push == IF dx.n < 0 THEN Neg(pushDistance) ELSE pushDistance
         IN PushSecondCell(
               IF Less(AbsOf(dx), minDistance)
               THEN [cells EXCEPT ![j].x = Plus(@, push)]
               ELSE cells,
               pairs, k + 1)
RECURSIVE ArenaPushApart(_, _, _)
ArenaPushApart(cells, pairs, k) ==
    IF k > Len(pairs) THEN cells
    ELSE LET i == pairs[k][1]
             j == pairs[k][2]
             dx == Minus(cells[j].x, cells[i].x)
             minDistance == M(SizeOf(cells[i].mass) + SizeOf(cells[j].mass))
             pushDistance == Half(Minus(minDistance, AbsOf(dx)))
             \* Math.cos(Math.atan2(0, dx)) * pushDistance
             push == IF dx.n < 0 THEN Neg(pushDistance) ELSE pushDistance
         IN ArenaPushApart(
               IF Less(AbsOf(dx), minDistance)
               THEN [cells EXCEPT ![i].x = Minus(@, push),
                                  ![j].x = Plus(@, push)]
               ELSE cells,
               pairs, k + 1)

\* the cells without those at the positions of a set
RECURSIVE WithoutCells(_, _, _)
WithoutCells(cells, k, gone) ==
    IF k > Len(cells) THEN <<>>
    ELSE (IF k \in gone THEN <<>> ELSE <<cells[k]>>)
         \o WithoutCells(cells, k + 1, gone)

\* checkCollisions on the cells of the arena
ArenaCollisions(cells) ==
    LET players == {i \in 1..Len(cells) : cells[i].owner = "player"}
        currentBots == {j \in 1..Len(cells) : cells[j].owner = "bot"}
        st == ArenaPlayerVsBots([cells |-> cells, botsToRemove |-> {}],
                                InLoopOrder(players \X currentBots), 1)
        pushed == ArenaPushApart(st.cells,
                     InLoopOrder({p \in players \X players : p[1] < p[2]}), 1)
    IN WithoutCells(pushed, 1, st.botsToRemove)

\* a / k for the number k of bodies of a player: exact when k is a power of
\* two or divides the numerator, as it does for the positions of FuseInputs
RECURSIVE DivideBy(_, _)
DivideBy(a, k) ==
    IF a.n % k = 0 \/ k % 2 # 0 THEN Norm(a.n \div k, a.e)
    ELSE DivideBy(Half(a), k \div 2)

\* the sum of the values at the positions of a set
RECURSIVE SumAt(_, _)
SumAt(vals, at) ==
    IF at = {} THEN M(0)
    ELSE LET k == CHOOSE i \in at : TRUE
         IN Plus(vals[k], SumAt(vals, at \ {k}))

\* fuseSplitCells() on the cells of the arena: the first player cell is the
\* main body, which gets the mass of all player cells and the average of
\* their positions; the other player cells are removed
FuseAtMainBody(cells) ==
    LET players == {i \in 1..Len(cells) : cells[i].owner = "player"}
        main == CHOOSE i \in players : \A j \in players : i <= j
        totalMass == SumAt([i \in 1..Len(cells) |-> M(cells[i].mass)], players)
    IN IF Cardinality(players) < 2 THEN cells
       ELSE WithoutCells([cells EXCEPT ![main].mass = totalMass.n],
                         1, players \ {main})
ArenaFuseSplitCells(cells) ==
    LET players == {i \in 1..Len(cells) : cells[i].owner = "player"}
        main == CHOOSE i \in players : \A j \in players : i <= j
        totalMass == SumAt([i \in 1..Len(cells) |-> M(cells[i].mass)], players)
        avgX == SumAt([i \in 1..Len(cells) |-> cells[i].x], players)
    IN IF Cardinality(players) < 2 THEN cells
       ELSE WithoutCells(
               [cells EXCEPT ![main].mass = totalMass.n,
                             ![main].x = DivideBy(avgX, Cardinality(players))],
               1, players \ {main})

\* the merge animation of the player completes: fuseSplitCells()
ArenaFuse ==
    /\ Cardinality({i \in 1..Len(arena.cells) : arena.cells[i].owner = "player"}) > 1
    /\ arena' = [arena EXCEPT !.cells = ArenaFuseSplitCells(@)]
    /\ lastOp' = "arenaFuse"
    /\ UNCHANGED <<storeVars, eatVars, worldVars, skillVars, power, isPaused>>

\* handleMouseMove: setAllTargets(mousePos)
MouseMove ==
    /\ \E target \in ArenaTargets :
          arena' = [arena EXCEPT !.cells =
                      [k \in 1..Len(@) |->
                          IF @[k].owner = "player"
                          THEN [@[k] EXCEPT !.target = target] ELSE @[k]]]
    /\ lastOp' = "mouseMove"
    /\ UNCHANGED <<storeVars, eatVars, worldVars, skillVars, power, isPaused>>

\* useGameLoop onUpdate, first part: update of every cell, a bot now and
\* then with a new target
ArenaUpdate(cells, steps, botTarget) ==
    LET aimed == [k \in 1..Len(cells) |->
                    IF cells[k].owner = "bot"
                    THEN [cells[k] EXCEPT !.target = botTarget]
                    ELSE cells[k]]
    IN [k \in 1..Len(aimed) |-> ArenaCellUpdate(aimed[k], steps[k])]

\* useGameLoop onUpdate on the cells of the arena: update of every cell,
\* then checkCollisions
ArenaTick ==
    /\ isGameRunning
    /\ arena.ticks < MaxArenaTicks
    /\ \E steps \in [1..Len(arena.cells) -> ArenaSteps],
          botTarget \in ArenaTargets :
          LET updated == ArenaUpdate(arena.cells, steps, botTarget)
          IN arena' = [cells |-> ArenaCollisions(updated),
                       updated |-> updated,
                       ticks |-> arena.ticks + 1]
    /\ lastOp' = "arenaTick"
    /\ UNCHANGED <<storeVars, eatVars, worldVars, skillVars, power, isPaused>>

\* the arena with the cells of one of the given lists, every cell at rest
InitArenaIn(lists) ==
    \E cells \in lists :
       arena = [cells |-> [k \in 1..Len(cells) |->
                              [owner |-> cells[k].owner,
                               mass |-> cells[k].mass,
                               x |-> M(cells[k].x),
                               target |-> cells[k].x]],
                updated |-> <<>>,
                ticks |-> 0]

-----------------------------------------------------------------------------
(* Power-ups: the speed boosts and point multipliers of the bodies of the  *)
(* player (the fusion triangle acts on playerRef.current and is left out)  *)

\* SpeedBoostTriangle and PointMultiplierTriangle
SpeedBoostValue == 2
SpeedBoostDuration == 10000
PointMultiplierValue == 3
PointMultiplierDuration == 10000

\* boost.startTime + boost.duration is still ahead at time t
ActiveAt(boost, t) == (t - boost.startTime) < boost.duration

\* the boosts of a list that are active at time t
ActiveBoosts(boosts, t) ==
    LET Test(boost) == ActiveAt(boost, t) IN SelectSeq(boosts, Test)

\* PlayerCell.getSpeedMultiplier / getPointMultiplier on a list of boosts
GetMultiplier(boosts) ==
    IF Len(boosts) = 0 THEN 1 ELSE boosts[Len(boosts)].multiplier

\* time a boost has left at time t
Remaining(boost, t) == boost.startTime + boost.duration - t

\* PlayerCell.startSpeedBoostFromTriangle on a body at time t: the last
\* active boost of the body is changed in place, so every list that holds
\* the same object sees the change; without an active boost a new one starts
StartSpeedBoostFromTriangle(pw, body, multiplier, duration, t) ==
    LET activeBoosts == ActiveBoosts(pw.speedBoosts[body], t)
    IN IF Len(activeBoosts) > 0
       THEN LET obj == activeBoosts[Len(activeBoosts)].obj
                Stack(boost) ==
                    IF boost.obj = obj
                    THEN [boost EXCEPT !.duration = Max(@, duration),
                                       !.multiplier = @ * multiplier]
                    ELSE boost
            IN [pw EXCEPT !.speedBoosts =
                   [b \in 1..Len(@) |-> [k \in 1..Len(@[b]) |-> Stack(@[b][k])]]]
       ELSE [pw EXCEPT !.speedBoosts[body] =
                          Append(@, [obj |-> pw.made + 1, startTime |-> t,
                                     duration |-> duration,
                                     multiplier |-> multiplier]),
                       !.made = @ + 1]

\* PlayerCell.startPointMultiplier on a body at time t
StartPointMultiplier(pw, body, multiplier, duration, t) ==
    [pw EXCEPT !.pointMultipliers[body] =
                  Append(@, [obj |-> pw.made + 1, startTime |-> t,
                             duration |-> duration, multiplier |-> multiplier]),
               !.made = @ + 1]

\* checkCollisions, player cells against the speed boost triangle: every
\* body that overlaps it collects it
RECURSIVE CollectSpeedBoosts(_, _, _, _)
CollectSpeedBoosts(pw, body, touching, t) ==
    IF body > Len(pw.speedBoosts) THEN pw
    ELSE CollectSpeedBoosts(
            IF body \in touching
            THEN StartSpeedBoostFromTriangle(pw, body, SpeedBoostValue,
                                             SpeedBoostDuration, t)
            ELSE pw,
            body + 1, touching, t)

\* checkCollisions, player cells against the point multiplier triangle
RECURSIVE CollectPointMultipliers(_, _, _, _)
CollectPointMultipliers(pw, body, touching, t) ==
    IF body > Len(pw.pointMultipliers) THEN pw
    ELSE CollectPointMultipliers(
            IF body \in touching
            THEN StartPointMultiplier(pw, body, PointMultiplierValue,
                                      PointMultiplierDuration, t)
            ELSE pw,
            body + 1, touching, t)

\* PlayerCell.updateAnimations of every body: boosts that ran out are dropped
ExpireBoosts(pw, t) ==
    [pw EXCEPT !.speedBoosts =
                  [b \in 1..Len(@) |-> ActiveBoosts(@[b], t)],
               !.pointMultipliers =
                  [b \in 1..Len(@) |-> ActiveBoosts(@[b], t)]]

\* Cell.maxSpeed, the mass at which the speed is halved, and the factor of
\* a player cell
MaxSpeed == 250
SpeedMassScale == 100
PlayerSpeedFactor == 2

\* Cell.update of a player cell, the speed
\* maxSpeed * (1 / (1 + mass / 100)) * 2 * getSpeedMultiplier()
\* as the fraction num / den
CellSpeed(maxSpeed, mass, boosts) ==
    [num |-> maxSpeed * SpeedMassScale * PlayerSpeedFactor * GetMultiplier(boosts),
     den |-> SpeedMassScale + mass]

\* PlayerCell.update, the speed of a body in its update: the main cell (body
\* 1) is updated by Cell.update; a split cell is updated by Cell.update
\* while its maxSpeed is multiplied by its getSpeedMultiplier()
BodySpeed(pw, body, mass) ==
    IF body = 1
    THEN CellSpeed(MaxSpeed, mass, pw.speedBoosts[body])
    ELSE CellSpeed(MaxSpeed * GetMultiplier(pw.speedBoosts[body]), mass,
                   pw.speedBoosts[body])

\* useGameLoop onUpdate on the boosts: update of the bodies, then
\* checkCollisions with the bodies that lie on the speed boost triangle and
\* those that lie on the point multiplier triangle
PowerTick ==
    /\ isGameRunning
    /\ \E speedTouch \in SUBSET (1..Len(power.speedBoosts)),
          pointTouch \in SUBSET (1..Len(power.speedBoosts)) :
          LET n == Cardinality(speedTouch) + Cardinality(pointTouch)
              updated == ExpireBoosts(power, now)
              speed == CollectSpeedBoosts(updated, 1, speedTouch, now)
              points == CollectPointMultipliers(speed, 1, pointTouch, now)
          IN /\ power.pickups + n <= MaxPickups
             /\ power' = [points EXCEPT
                            !.pickups = @ + n,
                            !.speedTouch = speedTouch,
                            !.pointTouch = pointTouch,
                            !.speeds = [b \in 1..Len(power.speedBoosts) |->
                                           BodySpeed(power, b, SmallMass)]]
    /\ lastOp' = "powerTick"
    /\ UNCHANGED <<storeVars, eatVars, worldVars, skillVars, arena, isPaused>>

\* PlayerCell.split (createSplitCell): every new cell starts with the boosts
\* of the main cell, in lists of its own that hold the same boost objects
PowerSplit ==
    /\ isGameRunning
    /\ 2 * Len(power.speedBoosts) <= MaxPowerBodies
    /\ power' = [power EXCEPT
                    !.speedBoosts = @ \o [b \in 1..Len(@) |-> @[1]],
                    !.pointMultipliers = @ \o [b \in 1..Len(@) |-> @[1]]]
    /\ lastOp' = "powerSplit"
    /\ UNCHANGED <<storeVars, eatVars, worldVars, skillVars, arena, isPaused>>

\* the player at the start: one body without boosts
InitPower ==
    power = [speedBoosts |-> <<<<>>>>, pointMultipliers |-> <<<<>>>>,
             made |-> 0, pickups |-> 0, speedTouch |-> {}, pointTouch |-> {},
             speeds |-> <<>>]

-----------------------------------------------------------------------------
(* Specifications                                                          *)

\* the store as created (running = FALSE) or after startGame
InitStoreIn(running, lists) ==
    /\ humanity = 50
    /\ kiControl = 50
    /\ isGameRunning = running
    /\ isGameWon = FALSE
    /\ isGameLost = FALSE
    /\ pending = <<>>
    /\ lastClamp = "none"
    /\ isPaused = FALSE
    /\ skills = InitialSkills
    /\ now = StartTime
    /\ skillCall = [id |-> "none", result |-> FALSE, before |-> NoTime]
    /\ InitArenaIn(lists)
    /\ InitPower
InitStore(running) == InitStoreIn(running, {ArenaCells})

InitEat ==
    /\ cellA \in 1..MaxEatMass
    /\ cellB \in 1..MaxEatMass
    /\ eatAB = FALSE
    /\ eatBA = FALSE

\* the world after initializeGame, with the game started
InitWorldIn(worlds) ==
    /\ \E w \in worlds :
          /\ player = [id |-> PlayerId, mass |-> M(w.mass), lastHungerTick |-> 0,
                       splitCells |-> <<>>, splitLevel |-> 0,
                       splitCooldown |-> 0, fusionCooldown |-> 0,
                       splitDuration |-> BaseFusionTime,
                       isMerging |-> FALSE, mergeAnimations |-> <<>>]
          /\ bots = [j \in 1..Len(w.bots) |-> NewCell(M(w.bots[j]))]
          /\ pellets = [k \in 1..w.pellets |-> NewPellet(k)]
    /\ sinceStart = 0
    /\ splitResult = FALSE
    /\ cellsEaten = 0
    /\ tickLog = [fusion |-> NoFusion, selfTouch |-> FALSE, before |-> <<>>,
                  eaten |-> <<>>]

InitWorld == InitWorldIn(InitWorlds)

Init ==
    /\ InitStore(FALSE)
    /\ InitEat
    /\ InitWorld
    /\ lastOp = "init"

\* the store alone, the canEat calls alone, the running game alone
InitStoreOnly == Init /\ cellA = 1 /\ cellB = 1 /\ player.mass = M(BigMass)
InitEatOnly == Init /\ player.mass = M(BigMass)
InitWorldOnly ==
    /\ InitStore(TRUE) /\ InitEat /\ InitWorld /\ lastOp = "init"
    /\ cellA = 1 /\ cellB = 1
SpecStore == InitStoreOnly
    /\ [][StartGame \/ ResetGame \/ DirectUpdateHumanity
          \/ DirectUpdateKIControl \/ ProcessBalanceAction \/ ContinueBalanceAction]_vars
SpecEat == InitEatOnly /\ [][CallCanEat \/ PickCells]_vars
SpecWorld == InitWorldOnly /\ [][Tick \/ SplitCall \/ KeySpace]_vars

\* the running game with a game loop that keeps calling onUpdate: weak
\* fairness of the tick, which is enabled exactly while the game is running
SpecLoop == SpecWorld /\ ([]<>(~isGameRunning) \/ []<><<Tick>>_vars)

\* a player that feeds its main cell on bots between its splits
InitFeastOnly ==
    /\ InitStore(TRUE) /\ InitEat /\ InitWorldIn({FeastWorld}) /\ lastOp = "init"
    /\ cellA = 1 /\ cellB = 1
SpecFeast == InitFeastOnly /\ [][FeastTick \/ KeySpace]_vars

\* a player alone with the fusion triangles
InitFusionOnly ==
    /\ InitStore(TRUE) /\ InitEat /\ lastOp = "init" /\ cellA = 1 /\ cellB = 1
    /\ InitWorldIn({[mass |-> MergeMass, bots |-> <<>>, pellets |-> 0]})

SpecFusion == InitFusionOnly /\ [][FusionTick \/ KeySpace]_vars

\* the feeding player with the pause key and the skill timer
SpecPause == InitFeastOnly
    /\ [][FeastTick \/ KeySpace \/ TogglePause \/ SkillTick]_vars

\* the skills of a running game
InitSkillsOnly ==
    /\ InitStore(TRUE) /\ InitEat /\ InitWorld /\ lastOp = "init"
    /\ cellA = 1 /\ cellB = 1 /\ player.mass = M(BigMass)
SpecSkills == InitSkillsOnly
    /\ [][ActivateSkill \/ SkillTick \/ AdvanceTime
          \/ TogglePause \/ StartGame \/ ResetGame]_vars

\* the skills of a running game under the interval timer
SpecCooldown ==
    InitSkillsOnly /\ [][SkillInterval \/ ActivateSkill \/ TogglePause]_vars

\* the interval timer keeps firing
SpecLifecycle == SpecCooldown /\ WF_vars(SkillInterval)

\* a player that splits and fuses, next to the bodies of a player at the
\* positions of FuseInputs
InitMergeOnly ==
    /\ InitStoreIn(TRUE, FuseInputs) /\ InitEat /\ lastOp = "init"
    /\ cellA = 1 /\ cellB = 1
    /\ InitWorldIn({[mass |-> MergeMass, bots |-> <<>>, pellets |-> 0]})

SpecMerge == InitMergeOnly /\ [][FusionTick \/ KeySpace \/ ArenaFuse]_vars

\* the bodies of a player right after a split in a running game
InitPushOnly ==
    /\ InitStoreIn(TRUE, SplitInputs) /\ InitEat /\ InitWorld /\ lastOp = "init"
    /\ cellA = 1 /\ cellB = 1 /\ player.mass = M(BigMass)

SpecPush == InitPushOnly /\ [][ArenaTick \/ MouseMove]_vars

\* the cells of the arena in a running game
SpecArena == InitSkillsOnly /\ [][ArenaTick \/ MouseMove]_vars

\* the boosts of the player in a running game
SpecPower == InitSkillsOnly /\ [][PowerTick \/ PowerSplit \/ AdvanceTime]_vars

-----------------------------------------------------------------------------
(* Properties of the balance meters                                        *)

MutOps == {"updateHumanity", "updateKIControl"}
HarmonyCond == humanity >= 85 /\ kiControl <= 20
LossCond == humanity <= 0 \/ kiControl >= 100

\* C6: after every single meter mutation (balance events with both outcomes
\* of their random branches, direct updates with any amount) humanity and
\* kiControl are both within [0,100].
C6_MeterBounds ==
    /\ humanity \in 0..100
    /\ kiControl \in 0..100

\* an update whose unclamped result lies above 100 has been clamped, and one
\* of the two updates of a balance event is still to come
C6_Witness ==
    /\ lastOp \in MutOps
    /\ lastClamp = "ceiling"
    /\ pending # <<>>

C8_ShutdownWin ==
    (lastOp \in MutOps /\ kiControl = 0) => isGameWon

-----------------------------------------------------------------------------
(* Properties of Cell.canEat                                               *)

\* C9: A.canEat(B) holds iff A.mass > 1.1 * B.mass; A.canEat(B) and
\* B.canEat(A) are never both true; with equal masses neither eats the other.
C9_EatAsymmetry ==
    lastOp = "canEat" =>
        /\ eatAB <=> (10 * (cellA - cellB) > cellB)
        /\ eatBA <=> (10 * (cellB - cellA) > cellA)
        /\ ~(eatAB /\ eatBA)
        /\ (cellA = cellB) => (~eatAB /\ ~eatBA)

\* the boundary case: 11 is exactly 1.1 * 10 and does not eat
C9_Witness ==
    /\ lastOp = "canEat"
    /\ cellA = 11
    /\ cellB = 10
    /\ ~eatAB
    /\ ~eatBA

-----------------------------------------------------------------------------
(* Properties of split and fusion                                          *)

\* a split() that has just returned true
SplitDone == lastOp \in SplitOps /\ splitResult

\* C1: a successful split() leaves the total mass of the main body and all
\* siblings unchanged; the main body and every sibling it had keep half of
\* their mass, and the body each of them spawns has the other half.
C1_SplitConservesMass ==
    [][(lastOp' \in SplitOps /\ splitResult') =>
          LET old == player.splitCells
              new == player'.splitCells
              n == Len(old)
          IN /\ GetTotalMass(player') = GetTotalMass(player)
             /\ Len(new) = 2 * n + 1
             /\ player'.mass = Half(player.mass)
             /\ new[2 * n + 1].mass = Minus(player.mass, player'.mass)
             /\ \A i \in 1..n :
                   /\ new[i].mass = Half(old[i].mass)
                   /\ new[n + i].mass = Minus(old[i].mass, new[i].mass)]_vars

\* a split of a player that had siblings has just succeeded
C1_Witness == SplitDone /\ player.splitLevel >= 2

\* C2: the mass of the single body left by an automatic fusion is the sum of
\* the masses the main body and all siblings had right before the fusion.
C2_FusionConservesMass ==
    tickLog.fusion.bodies # <<>> =>
        tickLog.fusion.mass = SumMasses(tickLog.fusion.bodies)

\* a tick has fused a main body and three siblings
C2_Witness ==
    /\ lastOp = "tick"
    /\ Len(tickLog.fusion.bodies) >= 4
    /\ player.splitCells = <<>>

\* C3: splitLevel is 0 exactly when there are no siblings, and there are never
\* more than 2^splitLevel siblings.
C3_LevelAndSiblings ==
    /\ player.splitLevel = 0 <=> player.splitCells = <<>>
    /\ Len(player.splitCells) <= Pow2(player.splitLevel)

\* a bot has eaten the main body, a sibling took over and no sibling is left
C3_Witness ==
    /\ lastOp = "tick"
    /\ isGameRunning
    /\ \E k \in 1..Len(tickLog.eaten) : tickLog.eaten[k].cell = 1
    /\ player.splitCells = <<>>
    /\ player.splitLevel = 0

\* the masses at which a split at the top level is tried
TopLevelMasses == {BaseRequiredMass + maxSplitLevel * RequiredMassStep, 100 * BigMass}

\* the player of mass BigMass splits as soon as it can: it is at level
\* level, no body was eaten and no pellet was taken
OnSplitPath(p, level) ==
    /\ p.splitLevel = level
    /\ p.mass = Norm(BigMass, level)
    /\ Len(p.splitCells) = Pow2(level) - 1
    /\ ~p.isMerging

\* C4: splitLevel never exceeds maxSplitLevel; the player of mass BigMass that
\* splits whenever the split cooldown is over gets from each level below the
\* top to the next, the cooldown being over before the fusion starts; at the
\* top level split() returns false whatever the mass.
C4_SplitCap ==
    /\ [](/\ player.splitLevel <= maxSplitLevel
          /\ player.splitLevel = maxSplitLevel =>
                \A m \in TopLevelMasses :
                    LET p == [player EXCEPT !.mass = M(m), !.splitCooldown = 0]
                    IN Split(p) = p
          /\ \A level \in 0..(maxSplitLevel - 1) :
                OnSplitPath(player, level) /\ player.splitCooldown <= 0 =>
                    Split(player).splitLevel = level + 1)
    /\ [][\A level \in 1..maxSplitLevel :
             (/\ lastOp' = "tick"
              /\ SplitDone
              /\ OnSplitPath(player, level)
              /\ tickLog'.eaten = <<>>) =>
                 /\ OnSplitPath(player', level)
                 /\ player'.splitCooldown <= 0]_vars

\* the player of mass BigMass has reached the top level
C4_Witness ==
    /\ SplitDone
    /\ OnSplitPath(player, maxSplitLevel)
    /\ player.splitCooldown > 0

\* C5: split() returns true exactly when the cooldown is over, the mass is at
\* least 40 + 20 * splitLevel, there are fewer than 2^(splitLevel + 1)
\* siblings and splitLevel is below 4; when it returns false the player is
\* unchanged; canSplit() is true exactly where split() returns true.
C5_SplitGuard ==
    /\ [](LET ok == /\ player.splitCooldown <= 0
                    /\ ~Less(player.mass, M(40 + 20 * player.splitLevel))
                    /\ Len(player.splitCells) < Pow2(player.splitLevel + 1)
                    /\ player.splitLevel < 4
          IN /\ CanSplit(player) <=> ok
             /\ Split(player) # player <=> ok)
    /\ [][lastOp' = "split" =>
             /\ splitResult' = CanSplit(player)
             /\ ~splitResult' => player' = player]_vars

\* split() has just returned false because of the cooldown alone
C5_Witness ==
    /\ lastOp = "split"
    /\ ~splitResult
    /\ player.splitCooldown > 0
    /\ ~Less(player.mass, M(RequiredMass(player)))
    /\ player.splitLevel \in 1..(maxSplitLevel - 1)

-----------------------------------------------------------------------------
(* Properties of the collision pass                                        *)

\* the bodies of the player
Bodies == AllMasses(player)

\* C10: a tick removes a body of the player only when a bot that dominates it
\* in mass has eaten it (or by fusion, which is over before the collision
\* pass): every body eaten was eaten by a bot of more than 1.1 times its
\* mass, and in a tick in which no bot has eaten a body, bodies lying on
\* each other or not, every body is still there with at least its mass.
C10_NoSelfCannibalism ==
    lastOp = "tick" =>
        /\ \A k \in 1..Len(tickLog.eaten) :
              LET e == tickLog.eaten[k]
                  cell11 == Norm(11 * e.cellMass.n, e.cellMass.e)
                  bot10 == Norm(10 * e.botMass.n, e.botMass.e)
              IN /\ e.cell \in 1..Len(tickLog.before)
                 /\ Less(cell11, bot10)
        /\ Len(Bodies) >= Len(tickLog.before)
                          - Cardinality({tickLog.eaten[k].cell :
                                           k \in 1..Len(tickLog.eaten)})
        /\ tickLog.eaten = <<>> =>
              /\ Len(Bodies) = Len(tickLog.before)
              /\ \A i \in 1..Len(Bodies) : ~Less(Bodies[i], tickLog.before[i])

\* two bodies of the player lay on each other in a tick in which a bot ate
\* none of them, and both are still there
C10_Witness ==
    /\ lastOp = "tick"
    /\ tickLog.selfTouch
    /\ tickLog.eaten = <<>>
    /\ Len(Bodies) >= 2

-----------------------------------------------------------------------------
(* Properties of the pellets                                               *)

\* the ids of the pellets of the world
PelletIds(ps) == {ps[k].id : k \in 1..Len(ps)}

\* C11: a pellet that is eaten stays in the world with the same identity: it
\* is not collidable while its respawn delay of 30 s of tick time runs, and
\* is collidable again once the delay is over.
C11_PelletRespawn ==
    /\ [](\A k \in 1..Len(pellets) :
             pellets[k].respawnTime \in 0..PelletRespawnTime)
    /\ [][lastOp' = "tick" => PelletIds(pellets) \subseteq PelletIds(pellets')]_vars

-----------------------------------------------------------------------------
(* Properties of the removal of eaten player cells                         *)

\* the bodies of the player that bots have eaten in the last tick
EatenCells == {tickLog.eaten[k].cell : k \in 1..Len(tickLog.eaten)}

\* C12: a tick ends the session in a loss exactly when every body of the
\* player (main and all siblings) has been eaten in that tick.
C12_LossOnLastBody ==
    lastOp = "tick" =>
        (isGameLost <=> EatenCells = 1..Len(tickLog.before))

\* C13: when the main body is eaten while siblings remain, the player takes
\* over the mass of a sibling (the first one, with what it has eaten in the
\* tick) and the id of the player is the same after the promotion as before.
C13_PromotionKeepsId ==
    [][(lastOp' = "tick" /\ 1 \in EatenCells' /\ ~isGameLost') =>
          /\ ~Less(player'.mass, tickLog'.before[2])
          /\ player'.id = player.id]_vars

-----------------------------------------------------------------------------
(* Properties of the skills                                                *)

\* C14: activateSkill(id) returns true only if the skill exists and its
\* currentCooldown is <= 0, and then sets currentCooldown to the full
\* cooldown, isActive to true and activateTime to the time of the call; in
\* every other case it returns false and changes no skill; it never changes
\* a skill other than the one named.
C14_ActivationGate ==
    [][lastOp' = "activateSkill" =>
          LET id == skillCall'.id
              ok == id \in SkillIds /\ skills[id].currentCooldown <= 0
          IN /\ skillCall'.result <=> ok
             /\ ok => /\ skills'[id].currentCooldown = skills[id].cooldown
                      /\ skills'[id].cooldown = skills[id].cooldown
                      /\ skills'[id].isActive
                      /\ skills'[id].activateTime = now
             /\ ~ok => skills' = skills
             /\ \A other \in SkillIds \ {id} : skills'[other] = skills[other]]_vars

\* activateSkill has just refused a skill that is cooling down while another
\* skill is cooling down too
C14_Witness ==
    /\ lastOp = "activateSkill"
    /\ ~skillCall.result
    /\ skillCall.id = "stealth"
    /\ skills["stealth"].currentCooldown > 0
    /\ skills["parley"].currentCooldown > 0
    /\ skills["parley"].currentCooldown < ParleyCooldown

-----------------------------------------------------------------------------
(* Properties of the masses                                                *)

\* C15: every live cell (main body of the player, every sibling, every bot)
\* has mass >= 5 in every reachable state.
C15_MassFloor ==
    /\ \A i \in 1..Len(Bodies) : ~Less(Bodies[i], M(MinMass))
    /\ \A j \in 1..Len(bots) : ~Less(bots[j].mass, M(MinMass))

-----------------------------------------------------------------------------
(* Properties of the positions                                             *)

\* C16: at the end of every tick the centre of every cell keeps its size
\* away from both ends of the world: size <= x <= worldWidth - size.
C16_WorldBounds ==
    lastOp = "arenaTick" =>
        \A k \in 1..Len(arena.cells) :
           LET size == SizeOf(arena.cells[k].mass)
           IN /\ ~Less(arena.cells[k].x, M(size))
              /\ ~Less(M(WorldWidth - size), arena.cells[k].x)

-----------------------------------------------------------------------------
(* Properties of the pause                                                 *)

\* C17: while isPaused is true no tick changes the player (mass, cooldowns,
\* siblings), a bot, a pellet or a skill cooldown.
C17_PauseFreezes ==
    [][(isPaused /\ lastOp' \in {"tick", "skillTick"}) =>
          UNCHANGED <<player, bots, pellets, skills>>]_vars

-----------------------------------------------------------------------------
(* Properties of the collision pass                                        *)

\* C18: the collision pass of a tick works on the masses of its start: a
\* player cell a bot eats is eaten with the mass it had when the pass began
\* (it has not itself eaten in this pass), and no player cell is eaten twice.
C18_SnapshotResolve ==
    lastOp = "tick" =>
        \A k \in 1..Len(tickLog.eaten) :
           /\ tickLog.eaten[k].cellMass = tickLog.before[tickLog.eaten[k].cell]
           /\ \A l \in 1..Len(tickLog.eaten) :
                 tickLog.eaten[l].cell = tickLog.eaten[k].cell => l = k

-----------------------------------------------------------------------------
(* Properties of the power-ups                                             *)

\* C19: after a tick in which a body of the player, main or sibling, has
\* picked up a speed boost, every body of the player is boosted; after one
\* in which a body has picked up a point multiplier, the multiplier of the
\* total score (that of the main body) is raised.
C19_PowerUpsToOwner ==
    lastOp = "powerTick" =>
        /\ power.speedTouch # {} =>
              \A b \in 1..Len(power.speedBoosts) :
                 GetMultiplier(power.speedBoosts[b]) > 1
        /\ power.pointTouch # {} =>
              GetMultiplier(power.pointMultipliers[1]) > 1

\* C20: a speed boost of multiplier k and duration d picked up by a body
\* with an active boost of multiplier m and remaining time r leaves the body
\* with multiplier m * k and a remaining time of at least max(r, d).
C20_SpeedBoostStacking ==
    [][\A b \in 1..Len(power.speedBoosts) :
          (/\ lastOp' = "powerTick"
           /\ power'.speedTouch = {b}
           /\ Len(ActiveBoosts(power.speedBoosts[b], now)) > 0) =>
             LET active == ActiveBoosts(power.speedBoosts[b], now)
                 old == active[Len(active)]
                 new == power'.speedBoosts[b][Len(power'.speedBoosts[b])]
             IN /\ new.multiplier = old.multiplier * SpeedBoostValue
                /\ Remaining(new, now) >=
                      Max(Remaining(old, now), SpeedBoostDuration)]_vars

-----------------------------------------------------------------------------
(* Properties of the fusion cooldown                                       *)

\* C21: a tick in which one body picks up the fusion triangle leaves half
\* of the fusion cooldown the tick would have left without it, and after one
\* such pick-up every successful split sets half of the fusion time of its
\* level, 15000 * 2^level / 2.
C21_FusionReduction ==
    [][/\ (lastOp' = "tick" /\ power'.pickups = power.pickups + 1
           /\ Len(player'.splitCells) > 0) =>
             \A deltaTime \in DeltaTimes :
                LET left == PlayerUpdate(player, deltaTime).fusionCooldown
                IN left > 0 => 2 * player'.fusionCooldown = left
       /\ (lastOp' \in SplitOps /\ splitResult' /\ power.pickups = 1) =>
             2 * player'.fusionCooldown = GetFusionTime(player'.splitLevel)]_vars

\* C22: a successful split from level 0 leaves splitCooldown = 0, one from a
\* level >= 1 leaves splitCooldown = 7500.
C22_SplitCooldownPerLevel ==
    [][(lastOp' \in SplitOps /\ splitResult') =>
          player'.splitCooldown = IF player.splitLevel = 0 THEN 0 ELSE 7500]_vars

ClockEnd == now + SkillTickTime > StartTime + MaxClock * SkillTickTime

-----------------------------------------------------------------------------
(* Properties of the fusion                                                *)

-----------------------------------------------------------------------------
(* Properties of the separation                                            *)

\* the player cells among cells, in their order
PlayerCellsOf(cells) == SelectSeq(cells, LAMBDA c : c.owner = "player")

\* the centres of cells i and j of cells are at least size + size apart
Apart(cells, i, j) ==
    ~Less(AbsOf(Minus(cells[i].x, cells[j].x)),
          M(SizeOf(cells[i].mass) + SizeOf(cells[j].mass)))

-----------------------------------------------------------------------------
(* Properties of the speed                                                 *)

\* C27: in an update every body of the player, main cell or split cell,
\* of mass SmallMass moves at the speed
\* maxSpeed * (1 / (1 + mass / 100)) * 2 * m, with m its speed multiplier at
\* the update, so that bodies with the same multiplier have the same speed.
C27_EffectiveSpeed ==
    [][lastOp' = "powerTick" =>
          \A b \in 1..Len(power.speedBoosts) :
             LET m == GetMultiplier(power.speedBoosts[b])
             IN /\ power'.speeds[b].num * (100 + SmallMass)
                      = MaxSpeed * 100 * 2 * m * power'.speeds[b].den
                /\ m = GetMultiplier(power.speedBoosts[1]) =>
                      power'.speeds[b] = power'.speeds[1]]_vars

-----------------------------------------------------------------------------
(* Properties of the terminal states                                       *)

\* C28: isGameWon and isGameLost are never both true, neither is true while
\* isGameRunning, and once one of them is true neither changes before
\* startGame or resetGame.
C28_TerminalAbsorbing ==
    /\ [](/\ ~(isGameWon /\ isGameLost)
          /\ isGameRunning => (~isGameWon /\ ~isGameLost))
    /\ [][((isGameWon \/ isGameLost)
             /\ lastOp' \notin {"startGame", "resetGame"}) =>
            UNCHANGED <<isGameWon, isGameLost>>]_vars


-----------------------------------------------------------------------------
(* Properties of the merge                                                 *)

\* C29: isMerging is set only while a merge animation is pending, and
\* whenever the player has a sibling and fusionCooldown <= 0, ticking leads
\* to a player with a single body (or to the end of the game).
C29_FusionHappens ==
    /\ [](player.isMerging => player.mergeAnimations # <<>>)
    /\ (Len(player.splitCells) > 0 /\ player.fusionCooldown <= 0)
          ~> (Len(player.splitCells) = 0 \/ ~isGameRunning)

\* C30: a tick fuses the bodies of the player only if fusionCooldown <= 0
\* when its merge animation completes.
C30_NoEarlyFusion ==
    [][(lastOp' = "tick" /\ tickLog'.fusion # NoFusion) =>
          player.fusionCooldown <= 0]_vars

====
